---- MODULE Spec2Model ----
(***************************************************************************)
(* Model of src/bot.py: the weekly poll bot.                               *)
(*                                                                         *)
(* The bot runs on one asyncio event loop.  A coroutine runs without       *)
(* interruption from one `await` to the next, so every action below is one *)
(* such segment of a handler.  The awaits are the three collaborator calls *)
(* send_poll, stop_poll and forward_message; a handler suspended in one of *)
(* them is a record of `running`.  Update handlers (/poll, poll updates)   *)
(* are processed one at a time (the Application is built with its default  *)
(* settings); job callbacks run as tasks of their own and interleave with  *)
(* them at the awaits.                                                      *)
(*                                                                         *)
(* Time is the calendar: `weekday` is date.today().weekday() (0 = Monday)  *)
(* and a job's `due` is the number of days from today to the date of its   *)
(* fire time, so Tick (midnight) lowers every `due` by one.                *)
(***************************************************************************)
EXTENDS Integers, FiniteSets, TLC

\* ---------------------------------------------------------------- bounds
\* Number of polls the collaborator is asked to send in one run.
MaxPolls == 2
\* Number of /poll commands in one run.
MaxCommands == 1
\* Number of send_poll and stop_poll calls that raise in one run.
MaxFailures == 1

\* ------------------------------------------------------------- constants
\* `if plus_votes >= 15` / `if current_votes < 15`
THRESHOLD == 15
\* `datetime.date.today().weekday() != 3`
SPAWN_WEEKDAY == 3
\* `(6 - today.weekday() + 7) % 7`
SUNDAY == 6
\* `(5 - today.weekday() + 7) % 7`
SATURDAY == 5

\* Values of voter_count the collaborator reports.
VoteCounts == {5, 15, 16}
\* Chats a /poll command comes from.
CommandChats == {7}
\* Values of the two environment settings (0 = not set).
TargetChoices == {0, 8}
ForwardChoices == {0, 9}

PollIds == 1..MaxPolls

VARIABLES
    poll_data,        \* the registry: poll id -> [chat_id, message_id, plus_votes]
    jobs,             \* the job queue: scheduled run_once jobs not yet fired or removed
    running,          \* handlers suspended in a collaborator call
    weekday,          \* date.today().weekday()
    dailyDone,        \* the daily_poll_check job has run today
    nextId,           \* the poll id the collaborator assigns to the next sent poll
    TARGET_CHAT_ID,
    FORWARD_CHAT_ID,
    commands,         \* number of /poll commands handled
    sendCalls,        \* number of send_poll calls made
    stopCalls,        \* poll id -> number of stop_poll calls made for it by each
                      \* handler: [vote, close] (each up to 2)
    fwdCalls,         \* poll id -> number of forward_message calls made for it (up to 2)
    failures          \* number of send_poll and stop_poll calls that raised

vars == <<poll_data, jobs, running, weekday, dailyDone, nextId, TARGET_CHAT_ID,
          FORWARD_CHAT_ID, commands, sendCalls, stopCalls, fwdCalls, failures>>

config == <<TARGET_CHAT_ID, FORWARD_CHAT_ID>>
calls == <<sendCalls, stopCalls, fwdCalls>>
clock == <<weekday, dailyDone>>
ids == <<nextId, commands>>

\* ------------------------------------------------------- pure operators
\* days_until_sunday without line 73: 0 days on a Sunday
days_until_sunday_no_promotion(wd) == (SUNDAY - wd + 7) % 7

\* lines 72-73
days_until_sunday(wd) ==
    LET d == (SUNDAY - wd + 7) % 7 IN IF d = 0 THEN 7 ELSE d

\* lines 76-77
days_until_saturday(wd) ==
    LET d == (SATURDAY - wd + 7) % 7 IN IF d = 0 THEN 7 ELSE d

\* weekday of the date `d` days after a date whose weekday is wd
WeekdayAfter(wd, d) == (wd + d) % 7

\* line 130 with `==` for `>=`, and with a threshold of 5
ReachedThreshold_exactly(v) == v = THRESHOLD
ReachedThreshold_early(v) == v >= 5

\* line 130: `if plus_votes >= 15`
ReachedThreshold(v) == v >= THRESHOLD

\* line 55 with a threshold of 5
NeedsForward_few(v) == v < 5

\* line 55: `if current_votes < 15`
NeedsForward(v) == v < THRESHOLD

\* `poll_id in poll_data`
InRegistry(id) == id \in DOMAIN poll_data

\* line 121 without the registry test
UpdateKnown_any(id) == TRUE

\* line 121: `if not update.poll or not update.poll.id in poll_data: return`
UpdateKnown(id) == id \in DOMAIN poll_data

\* line 50 without the test
ForwardConfigured_always == TRUE

\* line 50: `if FORWARD_CHAT_ID == 0`
ForwardConfigured == FORWARD_CHAT_ID # 0

\* line 113: `if TARGET_CHAT_ID == 0`
TargetConfigured == TARGET_CHAT_ID # 0

\* line 110 with 4 (Friday) for 3
IsSpawnDay_friday(wd) == wd = 4

\* line 110: `if datetime.date.today().weekday() != 3`
IsSpawnDay(wd) == wd = SPAWN_WEEKDAY

\* lines 139 / 150 without the `del`
Without_kept(pd, id) == pd

\* `del poll_data[poll_id]`
Without(pd, id) == [i \in (DOMAIN pd) \ {id} |-> pd[i]]

\* `poll_data[poll_id] = {...}`
With(pd, id, entry) == [i \in (DOMAIN pd) \cup {id} |-> IF i = id THEN entry ELSE pd[i]]

\* lines 134-136 over every close and forward job of the queue, whatever its poll
jobs_to_cancel_all(id) == {j \in jobs : j.name \in {"close", "forward"}}

\* job_queue.get_jobs_by_name(f"close_{poll_id}") + get_jobs_by_name(f"forward_{poll_id}")
jobs_to_cancel(id) == {j \in jobs : j.poll_id = id /\ j.name \in {"close", "forward"}}

Job(name, id, chat, msg, due) ==
    [name |-> name, poll_id |-> id, chat_id |-> chat, message_id |-> msg, due |-> due]

\* A suspended handler: which one, the poll and message it works on, the
\* offsets in days it computed (create) and the number of its call (n).
Task(h, id, chat, msg, sun, sat, upd, n) ==
    [h |-> h, poll_id |-> id, chat_id |-> chat, message_id |-> msg,
     sun |-> sun, sat |-> sat, upd |-> upd, n |-> n]

\* One more call is counted; a count of 2 stands for two or more.
Count(n) == IF n < 2 THEN n + 1 ELSE n

\* message.message_id of the message that carries poll `id`
MessageOf(id) == 100 + id

\* An update handler is suspended: the next update waits for it.
UpdateInProgress == \E r \in running : r.upd

\* Polls asked for so far: sent ones and those whose send_poll is in flight.
CanCreate == sendCalls < MaxPolls

\* The daily check is held back only by the bound on the number of polls.
DailyCheckDue ==
    /\ ~dailyDone
    /\ ~(IsSpawnDay(weekday) /\ TargetConfigured /\ ~CanCreate)

Init ==
    /\ poll_data = [i \in {} |-> 0]
    /\ jobs = {}
    /\ running = {}
    /\ weekday = 0
    /\ dailyDone = FALSE
    /\ nextId = 1
    /\ TARGET_CHAT_ID \in TargetChoices
    /\ FORWARD_CHAT_ID \in ForwardChoices
    /\ commands = 0
    /\ sendCalls = 0
    /\ stopCalls = [i \in PollIds |-> [vote |-> 0, close |-> 0]]
    /\ fwdCalls = [i \in PollIds |-> 0]
    /\ failures = 0

\* ------------------------------------------------------------- creation
\* create_and_send_poll, lines 70-87: the dates are computed from today, then
\* send_poll is awaited.
create_and_send_poll(chat, upd) ==
    /\ running' = running \cup
         {Task("create", 0, chat, 0, days_until_sunday(weekday),
               days_until_saturday(weekday), upd, sendCalls + 1)}
    /\ sendCalls' = sendCalls + 1

\* poll_command: /poll in chat `chat`
PollCommand(chat) ==
    /\ ~UpdateInProgress
    /\ CanCreate
    /\ commands < MaxCommands
    /\ commands' = commands + 1
    /\ create_and_send_poll(chat, TRUE)
    /\ UNCHANGED <<poll_data, jobs, clock, nextId, config, stopCalls, fwdCalls, failures>>

\* send_weekly_poll: the daily_poll_check job, once a day
DailyCheck ==
    /\ ~dailyDone
    /\ dailyDone' = TRUE
    /\ IF ~IsSpawnDay(weekday)
       THEN UNCHANGED <<running, sendCalls>>
       ELSE IF ~TargetConfigured
       THEN UNCHANGED <<running, sendCalls>>
       ELSE /\ CanCreate
            /\ create_and_send_poll(TARGET_CHAT_ID, FALSE)
    /\ UNCHANGED <<poll_data, jobs, weekday, ids, config, stopCalls, fwdCalls, failures>>

\* lines 89-102 without the run_once of line 100
SendPollReturns_no_forward(r) ==
    /\ r \in running /\ r.h = "create"
    /\ poll_data' = With(poll_data, nextId,
           [chat_id |-> r.chat_id, message_id |-> MessageOf(nextId), plus_votes |-> 0])
    /\ jobs' = jobs \cup {Job("close", nextId, r.chat_id, MessageOf(nextId), r.sun)}
    /\ nextId' = nextId + 1
    /\ running' = running \ {r}
    /\ UNCHANGED <<clock, commands, config, calls, failures>>

\* create_and_send_poll, lines 89-102: send_poll returned; the entry is stored
\* and both jobs are scheduled before the next await.
SendPollReturns(r) ==
    /\ r \in running /\ r.h = "create"
    /\ LET id == nextId
           msg == MessageOf(id)
       IN /\ poll_data' = With(poll_data, id,
                 [chat_id |-> r.chat_id, message_id |-> msg, plus_votes |-> 0])
          /\ jobs' = jobs \cup {Job("close", id, r.chat_id, msg, r.sun),
                                Job("forward", id, r.chat_id, msg, r.sat)}
    /\ nextId' = nextId + 1
    /\ running' = running \ {r}
    /\ UNCHANGED <<clock, commands, config, calls, failures>>

\* send_poll raised: the handler ends at line 84.
SendPollFails(r) ==
    /\ r \in running /\ r.h = "create"
    /\ failures < MaxFailures
    /\ failures' = failures + 1
    /\ running' = running \ {r}
    /\ UNCHANGED <<poll_data, jobs, clock, ids, config, calls>>

\* ---------------------------------------------------------- vote events
\* receive_poll_update without the test of line 121 and with
\* `poll_data.setdefault(poll_id, {...})` for the test of line 127: an update
\* for a poll that is not in the registry stores a new entry
ReceivePollUpdate_setdefault(id, v) ==
    /\ ~UpdateInProgress
    /\ id \in 1..(nextId - 1)
    /\ IF id \notin DOMAIN poll_data
       THEN /\ poll_data' = With(poll_data, id,
                   [chat_id |-> 0, message_id |-> MessageOf(id), plus_votes |-> v])
            /\ UNCHANGED <<jobs, running, stopCalls>>
       ELSE /\ poll_data' = [poll_data EXCEPT ![id].plus_votes = v]
            /\ IF ~ReachedThreshold(v)
               THEN UNCHANGED <<jobs, running, stopCalls>>
               ELSE /\ jobs' = jobs \ jobs_to_cancel(id)
                    /\ running' = running \cup
                          {Task("vote", id, poll_data[id].chat_id,
                                poll_data[id].message_id, 0, 0, TRUE,
                                Count(stopCalls[id].vote))}
                    /\ stopCalls' = [stopCalls EXCEPT ![id].vote = Count(@)]
    /\ UNCHANGED <<clock, ids, config, sendCalls, fwdCalls, failures>>

\* receive_poll_update keeping the highest count seen:
\* `max(poll_data[poll_id]["plus_votes"], plus_votes)` at line 128
ReceivePollUpdate_max(id, v) ==
    /\ ~UpdateInProgress
    /\ id \in 1..(nextId - 1)
    /\ IF ~UpdateKnown(id)
       THEN UNCHANGED <<poll_data, jobs, running, stopCalls>>
       ELSE /\ poll_data' = [poll_data EXCEPT
                   ![id].plus_votes = IF @ > v THEN @ ELSE v]
            /\ IF ~ReachedThreshold(v)
               THEN UNCHANGED <<jobs, running, stopCalls>>
               ELSE /\ jobs' = jobs \ jobs_to_cancel(id)
                    /\ running' = running \cup
                          {Task("vote", id, poll_data[id].chat_id,
                                poll_data[id].message_id, 0, 0, TRUE,
                                Count(stopCalls[id].vote))}
                    /\ stopCalls' = [stopCalls EXCEPT ![id].vote = Count(@)]
    /\ UNCHANGED <<clock, ids, config, sendCalls, fwdCalls, failures>>

\* receive_poll_update, lines 121-138, for a poll update of a sent poll
ReceivePollUpdate(id, v) ==
    /\ ~UpdateInProgress
    /\ id \in 1..(nextId - 1)
    /\ IF ~UpdateKnown(id)
       THEN UNCHANGED <<poll_data, jobs, running, stopCalls>>
       ELSE /\ poll_data' = IF InRegistry(id)
                            THEN [poll_data EXCEPT ![id].plus_votes = v]
                            ELSE poll_data
            /\ IF ~ReachedThreshold(v)
               THEN UNCHANGED <<jobs, running, stopCalls>>
               ELSE /\ jobs' = jobs \ jobs_to_cancel(id)
                    /\ IF InRegistry(id)
                       THEN /\ running' = running \cup
                                 {Task("vote", id, poll_data[id].chat_id,
                                       poll_data[id].message_id, 0, 0, TRUE,
                                       Count(stopCalls[id].vote))}
                            /\ stopCalls' = [stopCalls EXCEPT ![id].vote = Count(@)]
                       ELSE UNCHANGED <<running, stopCalls>>
    /\ UNCHANGED <<clock, ids, config, sendCalls, fwdCalls, failures>>

\* lines 139 / 150: stop_poll returned and `del poll_data[poll_id]` runs; it
\* raises KeyError, and changes nothing, when the entry is gone.
StopPollReturns(r) ==
    /\ r \in running /\ r.h \in {"vote", "close"}
    /\ running' = running \ {r}
    /\ IF InRegistry(r.poll_id)
       THEN poll_data' = Without(poll_data, r.poll_id)
       ELSE UNCHANGED poll_data
    /\ UNCHANGED <<jobs, clock, ids, config, calls, failures>>

\* stop_poll raised and the entry is deleted all the same (the `del` in a
\* `finally`)
StopPollFails_removes(r) ==
    /\ r \in running /\ r.h \in {"vote", "close"}
    /\ failures < MaxFailures
    /\ failures' = failures + 1
    /\ running' = running \ {r}
    /\ poll_data' = [i \in (DOMAIN poll_data) \ {r.poll_id} |-> poll_data[i]]
    /\ UNCHANGED <<jobs, clock, ids, config, calls>>

\* stop_poll raised: the handler ends at line 138 / 149, before the `del`.
StopPollFails(r) ==
    /\ r \in running /\ r.h \in {"vote", "close"}
    /\ failures < MaxFailures
    /\ failures' = failures + 1
    /\ running' = running \ {r}
    /\ UNCHANGED <<poll_data, jobs, clock, ids, config, calls>>

\* ------------------------------------------------------------ job firing
\* auto_close_poll, lines 143-149, run by the job queue at the job's fire time;
\* a run_once job leaves the queue when it fires.
auto_close_poll(id, chat, msg) ==
    IF InRegistry(id)
    THEN /\ running' = running \cup
              {Task("close", id, chat, msg, 0, 0, FALSE, Count(stopCalls[id].close))}
         /\ stopCalls' = [stopCalls EXCEPT ![id].close = Count(@)]
    ELSE UNCHANGED <<running, stopCalls>>

\* The close job is due at 10:00 of the subject date, after the daily check
\* of 09:00.
CloseTaskFired(j) ==
    /\ ~DailyCheckDue
    /\ j \in jobs /\ j.name = "close" /\ j.due <= 0
    /\ jobs' = jobs \ {j}
    /\ auto_close_poll(j.poll_id, j.chat_id, j.message_id)
    /\ UNCHANGED <<poll_data, clock, ids, config, sendCalls, fwdCalls, failures>>

\* check_and_forward_poll, lines 46-66
check_and_forward_poll(id, chat, msg) ==
    IF ~InRegistry(id)
    THEN UNCHANGED <<running, fwdCalls>>
    ELSE IF ~ForwardConfigured
    THEN UNCHANGED <<running, fwdCalls>>
    ELSE IF NeedsForward(poll_data[id].plus_votes)
    THEN /\ running' = running \cup
              {Task("forward", id, chat, msg, 0, 0, FALSE, Count(fwdCalls[id]))}
         /\ fwdCalls' = [fwdCalls EXCEPT ![id] = Count(@)]
    ELSE UNCHANGED <<running, fwdCalls>>

\* The forward job is due at 10:00 of the forward date.
EscalationTaskFired(j) ==
    /\ ~DailyCheckDue
    /\ j \in jobs /\ j.name = "forward" /\ j.due <= 0
    /\ jobs' = jobs \ {j}
    /\ check_and_forward_poll(j.poll_id, j.chat_id, j.message_id)
    /\ UNCHANGED <<poll_data, clock, ids, config, sendCalls, stopCalls, failures>>

\* forward_message returned, or raised and lines 63-64 logged the error:
\* either way the handler ends there.
ForwardEnds(r) ==
    /\ r \in running /\ r.h = "forward"
    /\ running' = running \ {r}
    /\ UNCHANGED <<poll_data, jobs, clock, ids, config, calls, failures>>

\* ------------------------------------------------------------------ time
\* Midnight: every job due today has fired, today's daily check has run and
\* every collaborator call of the day has returned or raised.
Tick ==
    /\ ~DailyCheckDue
    /\ running = {}
    /\ \A j \in jobs : j.due > 0
    /\ weekday' = (weekday + 1) % 7
    /\ dailyDone' = FALSE
    /\ jobs' = {[j EXCEPT !.due = @ - 1] : j \in jobs}
    /\ UNCHANGED <<poll_data, running, ids, config, calls, failures>>

\* -------------------------------------------------------- specifications
NextOk ==
    \/ \E chat \in CommandChats : PollCommand(chat)
    \/ DailyCheck
    \/ \E r \in running : SendPollReturns(r)
    \/ \E id \in PollIds, v \in VoteCounts : ReceivePollUpdate(id, v)
    \/ \E r \in running : StopPollReturns(r)
    \/ \E j \in jobs : CloseTaskFired(j)
    \/ \E j \in jobs : EscalationTaskFired(j)
    \/ \E r \in running : ForwardEnds(r)
    \/ Tick

Next ==
    \/ NextOk
    \/ \E r \in running : SendPollFails(r)
    \/ \E r \in running : StopPollFails(r)

\* The program with collaborator calls that may raise.
Spec == Init /\ [][Next]_vars

\* The program when every collaborator call succeeds.
SpecOk == Init /\ [][NextOk]_vars

\* The same, with the scheduling the event loop and the job queue give: a due
\* job fires, a ready coroutine resumes, the daily check runs every day and
\* the day ends.  Updates (/poll, votes) are never owed.
Fairness ==
    /\ WF_vars(DailyCheck)
    /\ WF_vars(Tick)
    /\ WF_vars(\E r \in running : SendPollReturns(r))
    /\ WF_vars(\E r \in running : StopPollReturns(r))
    /\ WF_vars(\E r \in running : ForwardEnds(r))
    /\ WF_vars(\E j \in jobs : CloseTaskFired(j))
    /\ WF_vars(\E j \in jobs : EscalationTaskFired(j))

LiveSpec == Init /\ [][NextOk]_vars /\ Fairness

\* A job callback called once more than the job queue calls it, while no
\* handler is suspended: the callback runs on the job's data and the job
\* stays scheduled.
CloseTaskFiredTwice(j) ==
    /\ ~DailyCheckDue
    /\ running = {}
    /\ j \in jobs /\ j.name = "close" /\ j.due <= 0
    /\ auto_close_poll(j.poll_id, j.chat_id, j.message_id)
    /\ UNCHANGED <<poll_data, jobs, clock, ids, config, sendCalls, fwdCalls, failures>>

EscalationTaskFiredTwice(j) ==
    /\ ~DailyCheckDue
    /\ running = {}
    /\ j \in jobs /\ j.name = "forward" /\ j.due <= 0
    /\ check_and_forward_poll(j.poll_id, j.chat_id, j.message_id)
    /\ UNCHANGED <<poll_data, jobs, clock, ids, config, sendCalls, stopCalls, failures>>

NextTwice ==
    \/ NextOk
    \/ \E j \in jobs : CloseTaskFiredTwice(j)
    \/ \E j \in jobs : EscalationTaskFiredTwice(j)

\* The program, every collaborator call succeeding, with its job callbacks
\* also called a second time.
SpecTwice == Init /\ [][NextTwice]_vars

\* ------------------------------------------------------------ properties
\* stop_poll calls made for poll `id`, by either handler
StopCallsOf(sc, id) == sc[id].vote + sc[id].close

\* the scheduled jobs of poll `id` in job queue `js`
JobsOf(js, id) == {j \in js : j.poll_id = id}

\* handlers of poll `id` suspended in stop_poll
Closing(rs, id) == {r \in rs : r.poll_id = id /\ r.h \in {"vote", "close"}}

\* C1: for every poll, stop_poll is invoked at most once: the vote handler
\* and the close job never both call it, whatever their interleaving.
C1_ClosePollAtMostOnce ==
    \A id \in PollIds : StopCallsOf(stopCalls, id) <= 1

\* What C2 asks of the first segment of receive_poll_update(id, v), v >= 15,
\* on an open poll: both jobs are off the queue and stop_poll is being called.
C2_EarlyClosureStarts ==
    \A id \in PollIds, v \in VoteCounts :
        (v >= THRESHOLD /\ InRegistry(id) /\ ReceivePollUpdate(id, v)) =>
            /\ JobsOf(jobs', id) = {}
            /\ stopCalls'[id].vote >= 1
            /\ \E r \in running' : r.h = "vote" /\ r.poll_id = id

\* What C2 asks of the state the handler ends in.
C2_Closed(r) ==
    /\ r.poll_id \notin DOMAIN poll_data'
    /\ JobsOf(jobs', r.poll_id) = {}
    /\ stopCalls'[r.poll_id].vote >= 1

C3_EveryPollEventuallyClosed ==
    \A id \in PollIds :
        InRegistry(id) ~> (~InRegistry(id) /\ StopCallsOf(stopCalls, id) >= 1)

\* Poll 1 was closed at its deadline: only the close job called stop_poll and
\* the entry is gone.
C3_Witness ==
    /\ nextId > 1 /\ ~InRegistry(1)
    /\ stopCalls[1] = [vote |-> 0, close |-> 1]
    /\ Closing(running, 1) = {}

\* C4: for every open poll and every v < 15, receive_poll_update(id, v) only
\* overwrites plus_votes with v: the entry stays, stop_poll is not called and
\* the job queue is as it was.
C4_VoteBelowThresholdOnlyOverwrites ==
    [][\A id \in PollIds, v \in VoteCounts :
         (v < THRESHOLD /\ InRegistry(id) /\ ReceivePollUpdate(id, v)) =>
            /\ poll_data' = [poll_data EXCEPT ![id].plus_votes = v]
            /\ jobs' = jobs
            /\ running' = running
            /\ stopCalls' = stopCalls
      ]_vars

\* Poll 1 is open with 5 votes reported, both of its jobs scheduled and no
\* stop_poll call made.
C4_Witness ==
    /\ InRegistry(1) /\ poll_data[1].plus_votes = 5
    /\ {j.name : j \in JobsOf(jobs, 1)} = {"close", "forward"}
    /\ StopCallsOf(stopCalls, 1) = 0
    /\ running = {}

\* C5: when the forward job fires for an open poll and FORWARD_CHAT_ID is
\* set, forward_message is called iff plus_votes < 15; the entry, its vote
\* count and the poll's close job are as before, also once forward_message
\* has returned or raised.
C5_EscalationForwardsBelowThreshold ==
    [][/\ \A j \in jobs :
            (InRegistry(j.poll_id) /\ FORWARD_CHAT_ID # 0 /\ EscalationTaskFired(j)) =>
                /\ (fwdCalls'[j.poll_id] > fwdCalls[j.poll_id])
                       <=> (poll_data[j.poll_id].plus_votes < THRESHOLD)
                /\ (\E r \in running' \ running : r.h = "forward" /\ r.poll_id = j.poll_id)
                       <=> (poll_data[j.poll_id].plus_votes < THRESHOLD)
                /\ poll_data' = poll_data
                /\ jobs' = jobs \ {j}
                /\ stopCalls' = stopCalls
       /\ \A r \in running :
            (r.h = "forward" /\ ForwardEnds(r)) =>
                /\ poll_data' = poll_data
                /\ jobs' = jobs
                /\ calls' = calls
      ]_vars

\* The message of poll 1 was forwarded once and the call is over; the poll is
\* still open with the count it had, and its close job is still scheduled.
C5_Witness ==
    /\ InRegistry(1) /\ poll_data[1].plus_votes = 5
    /\ fwdCalls[1] = 1
    /\ {j.name : j \in JobsOf(jobs, 1)} = {"close"}
    /\ StopCallsOf(stopCalls, 1) = 0
    /\ running = {}

\* C6: with FORWARD_CHAT_ID = 0 a firing forward job never calls
\* forward_message and leaves the registry and the other jobs alone; with
\* TARGET_CHAT_ID = 0 the daily check on the spawn weekday sends no poll and
\* leaves the registry alone.
C6_UnsetDestinationIsNoOp ==
    [][/\ \A j \in jobs :
            (FORWARD_CHAT_ID = 0 /\ EscalationTaskFired(j)) =>
                /\ fwdCalls' = fwdCalls
                /\ running' = running
                /\ poll_data' = poll_data
                /\ jobs' = jobs \ {j}
       /\ (TARGET_CHAT_ID = 0 /\ weekday = SPAWN_WEEKDAY /\ DailyCheck) =>
                /\ sendCalls' = sendCalls
                /\ running' = running
                /\ poll_data' = poll_data
                /\ jobs' = jobs
      ]_vars

\* Neither destination is set.  It is Saturday, so the daily check of the
\* Thursday before has run (the run starts on a Monday) and the only send_poll
\* call is the /poll command's; poll 1 is open below the threshold and its
\* forward job has left the queue while its close job has not, so the forward
\* job has fired (a cancellation removes both); nothing was forwarded.
C6_Witness ==
    /\ FORWARD_CHAT_ID = 0 /\ TARGET_CHAT_ID = 0
    /\ weekday = SATURDAY /\ sendCalls = 1 /\ commands = 1
    /\ InRegistry(1) /\ poll_data[1].plus_votes = 5
    /\ {j.name : j \in JobsOf(jobs, 1)} = {"close"}
    /\ fwdCalls[1] = 0

\* C7: a handler called for a poll id that is not in the registry does
\* nothing: receive_poll_update, auto_close_poll and check_and_forward_poll
\* call no collaborator and change neither the registry nor any other job
\* (a fired job itself leaves the queue).  So a second auto_close_poll after
\* the first has removed the entry, and a vote after closure, change nothing.
C7_AbsentPollIsNoOp ==
    [][/\ \A id \in PollIds, v \in VoteCounts :
            (~InRegistry(id) /\ ReceivePollUpdate(id, v)) =>
                UNCHANGED <<poll_data, jobs, running, calls>>
       /\ \A j \in jobs :
            (~InRegistry(j.poll_id) /\ (CloseTaskFired(j) \/ EscalationTaskFired(j))) =>
                /\ UNCHANGED <<poll_data, running, calls>>
                /\ jobs' = jobs \ {j}
       /\ \A j \in jobs :
            (~InRegistry(j.poll_id)
                 /\ (CloseTaskFiredTwice(j) \/ EscalationTaskFiredTwice(j))) =>
                UNCHANGED <<poll_data, jobs, running, calls>>
      ]_vars

\* Poll 1 is closed and nothing is in flight, while its close job is still
\* in the queue and due: auto_close_poll has run once and removed the entry,
\* and its second call, like a vote for poll 1 now, is for an id that is not
\* in the registry.
C7_Witness ==
    /\ nextId > 1 /\ ~InRegistry(1)
    /\ stopCalls[1] = [vote |-> 0, close |-> 1]
    /\ running = {}
    /\ ~DailyCheckDue
    /\ \E j \in jobs : j.poll_id = 1 /\ j.name = "close" /\ j.due <= 0

\* C8 as stated: check_and_forward_poll called twice for the same open poll
\* (below the threshold, FORWARD_CHAT_ID set) forwards the message at most
\* once.
C8_ForwardedAtMostOnce ==
    \A id \in PollIds : fwdCalls[id] <= 1

\* C8 amended: check_and_forward_poll keeps no record of having forwarded, so
\* every call for an open poll below the threshold with FORWARD_CHAT_ID set,
\* the second like the first, calls forward_message and leaves the registry
\* entry as it is.
C8_EveryCallForwards ==
    [][\A j \in jobs :
         (/\ InRegistry(j.poll_id) /\ FORWARD_CHAT_ID # 0
          /\ poll_data[j.poll_id].plus_votes < THRESHOLD
          /\ (EscalationTaskFired(j) \/ EscalationTaskFiredTwice(j))) =>
            /\ fwdCalls'[j.poll_id] = Count(fwdCalls[j.poll_id])
            /\ \E r \in running' :
                  r.h = "forward" /\ r.poll_id = j.poll_id /\ r.n = fwdCalls'[j.poll_id]
            /\ poll_data' = poll_data
      ]_vars

\* The message of poll 1 was forwarded twice, the second call being made
\* after the first was over, and the poll is open as before.
C8_Witness ==
    /\ InRegistry(1) /\ poll_data[1].plus_votes = 5
    /\ fwdCalls[1] = 2
    /\ running = {[poll_id |-> 1, chat_id |-> poll_data[1].chat_id,
                   message_id |-> poll_data[1].message_id, h |-> "forward",
                   sun |-> 0, sat |-> 0, upd |-> FALSE, n |-> 2]}

\* C9: on every weekday the subject date create_and_send_poll computes is a
\* Sunday 1 to 7 days after today, never today.
C9_SubjectDateIsAComingSunday ==
    \A r \in running :
        r.h = "create" =>
            /\ r.sun \in 1..7
            /\ WeekdayAfter(weekday, r.sun) = SUNDAY

\* create_and_send_poll is running on a Sunday and its subject date is 7 days
\* away.
C9_Witness ==
    /\ weekday = SUNDAY
    /\ \E r \in running : r.h = "create" /\ r.sun = 7

\* C10: on every weekday the forward date create_and_send_poll computes is
\* before its subject date, so a poll's forward job is due before its close
\* job.
C10_EscalationBeforeSubjectDate ==
    /\ \A r \in running : r.h = "create" => r.sat < r.sun
    /\ \A j \in jobs, k \in jobs :
         (j.poll_id = k.poll_id /\ j.name = "forward" /\ k.name = "close") =>
             j.due < k.due

\* C11: in every state, no close or forward job in the job queue is for a
\* poll that is not in the registry: whatever removes a poll also takes its
\* remaining jobs off the queue.
C11_NoJobOfAbsentPoll ==
    \A j \in jobs : InRegistry(j.poll_id)

\* ---------------------------------------------------------------- restart
\* The process stops and starts again: poll_data is the empty dictionary of
\* line 23 again, main builds a new Application with a new job queue and no
\* persistence, and the handlers that were suspended are gone.  The two
\* settings are read from the same environment, and what the collaborator
\* holds (the sent polls, the calls made to it) is as it was.
Restart ==
    /\ poll_data' = [i \in {} |-> 0]
    /\ jobs' = {}
    /\ running' = {}
    /\ UNCHANGED <<clock, ids, config, calls, failures>>

NextRestart ==
    \/ NextOk
    \/ Restart

\* The program, every collaborator call succeeding, with restarts.
SpecRestart == Init /\ [][NextRestart]_vars

\* C12: when the process stops and starts again, every poll that was open is
\* in the registry again with its votes, chat and message, its remaining jobs
\* are scheduled again, and no poll is sent anew.
C12_RestartKeepsOpenPolls ==
    [][Restart =>
         /\ poll_data' = poll_data
         /\ \A j \in jobs : InRegistry(j.poll_id) => j \in jobs'
         /\ sendCalls' = sendCalls
      ]_vars

\* C13: an entry leaves the registry only in the step in which a stop_poll
\* call for that poll returns; when stop_poll raises, in the vote handler or
\* in the close job, the registry is as it was, the entry keeping the count
\* last reported.
C13_RemovedOnlyAfterStopPollSucceeds ==
    [][/\ \A r \in running : StopPollFails(r) => poll_data' = poll_data
       /\ \A id \in DOMAIN poll_data :
            id \notin DOMAIN poll_data' =>
                \E r \in Closing(running, id) : StopPollReturns(r)
      ]_vars

\* The stop_poll call of the close job of poll 1 raised: the poll is still in
\* the registry with the 5 votes reported before.
C13_Witness ==
    /\ InRegistry(1) /\ poll_data[1].plus_votes = 5
    /\ stopCalls[1] = [vote |-> 0, close |-> 1]
    /\ Closing(running, 1) = {}
    /\ failures = 1

\* C14: when the stop_poll call of the vote handler raises, the close job of
\* the poll is still scheduled, so that the poll is closed at its deadline.
C14_CloseJobLeftAfterEarlyClosureFails ==
    [][\A r \in running :
         (r.h = "vote" /\ StopPollFails(r)) =>
            \E j \in jobs' : j.poll_id = r.poll_id /\ j.name = "close"
      ]_vars

\* C15: a run of the daily check starts create_and_send_poll for
\* TARGET_CHAT_ID (one send_poll call) exactly when today is Thursday and
\* TARGET_CHAT_ID is set, and that poll is stored with its two jobs when
\* send_poll returns; every other run sends nothing and leaves the registry,
\* the job queue and the suspended handlers as they were.  The check runs at
\* most once a day and the days follow each other, so it starts at most one
\* poll in 7 consecutive runs.
C15_DailyCheckCreatesOnThursdayOnly ==
    [][/\ DailyCheck =>
            /\ ~dailyDone /\ dailyDone'
            /\ UNCHANGED <<poll_data, jobs, stopCalls, fwdCalls>>
            /\ IF weekday = SPAWN_WEEKDAY /\ TARGET_CHAT_ID # 0
               THEN /\ sendCalls' = sendCalls + 1
                    /\ \E r \in running' :
                          /\ r.h = "create" /\ ~r.upd /\ r.chat_id = TARGET_CHAT_ID
                          /\ running' = running \cup {r} /\ r \notin running
               ELSE UNCHANGED <<running, sendCalls>>
       /\ \A r \in running :
            (r.h = "create" /\ ~r.upd /\ SendPollReturns(r)) =>
                /\ nextId \in DOMAIN poll_data' /\ nextId \notin DOMAIN poll_data
                /\ poll_data'[nextId].chat_id = TARGET_CHAT_ID
                /\ {j.name : j \in JobsOf(jobs', nextId)} = {"close", "forward"}
       /\ (weekday' # weekday \/ (dailyDone /\ ~dailyDone')) =>
            (weekday' = (weekday + 1) % 7 /\ ~dailyDone')
      ]_vars

\* The daily check has run on a Thursday with TARGET_CHAT_ID set and its
\* send_poll call is in flight.
C15_Witness ==
    /\ weekday = SPAWN_WEEKDAY /\ dailyDone /\ TARGET_CHAT_ID # 0
    /\ \E r \in running : r.h = "create" /\ ~r.upd /\ r.chat_id = TARGET_CHAT_ID

\* C16: when create_and_send_poll returns, the new poll id is in the registry
\* with plus_votes = 0, the chat it was sent to and the id of the sent
\* message, and the job queue holds exactly two jobs of that poll, its close
\* job and its forward job, carrying that poll id; and in every state a poll
\* in the registry has at most two jobs, at most one of each name.
C16_TwoJobsAfterCreate ==
    /\ [](\A id \in DOMAIN poll_data :
             /\ Cardinality(JobsOf(jobs, id)) <= 2
             /\ \A j \in JobsOf(jobs, id), k \in JobsOf(jobs, id) :
                    j.name = k.name => j = k)
    /\ [][\A r \in running :
            SendPollReturns(r) =>
                /\ nextId \notin DOMAIN poll_data
                /\ poll_data' = With(poll_data, nextId,
                       [chat_id |-> r.chat_id, message_id |-> MessageOf(nextId),
                        plus_votes |-> 0])
                /\ Cardinality(JobsOf(jobs', nextId)) = 2
                /\ {j.name : j \in JobsOf(jobs', nextId)} = {"close", "forward"}
                /\ \A j \in JobsOf(jobs', nextId) :
                       j.chat_id = r.chat_id /\ j.message_id = MessageOf(nextId)
                /\ \A j \in jobs' : j.poll_id # nextId => j \in jobs
         ]_vars

\* Poll 2 has just been created while poll 1 is open: both are in the
\* registry without votes, each with its two jobs.
C16_Witness ==
    /\ nextId = 3 /\ running = {}
    /\ InRegistry(1) /\ InRegistry(2) /\ poll_data[2].plus_votes = 0
    /\ Cardinality(JobsOf(jobs, 2)) = 2
    /\ Cardinality(JobsOf(jobs, 1)) = 2

\* C17: a poll id that was sent and is no longer in the registry is never in
\* the registry again, whatever poll updates, job firings, daily checks and
\* commands follow (every sent poll gets a new id).
C17_ClosedIsTerminal ==
    [][\A id \in PollIds :
         (id < nextId /\ ~InRegistry(id)) => id \notin DOMAIN poll_data'
      ]_vars

\* Poll 1 is closed; poll 2 was created after it and has received a vote.
C17_Witness ==
    /\ nextId = 3 /\ ~InRegistry(1) /\ StopCallsOf(stopCalls, 1) = 1
    /\ Closing(running, 1) = {}
    /\ InRegistry(2) /\ poll_data[2].plus_votes = 5

\* C18: plus_votes of a poll in the registry is 0 when the poll is created,
\* becomes v at every receive_poll_update(id, v) for it, also when v is lower
\* than the count stored, and is changed by no other step: not by a close or
\* forward job, not by the creation of another poll.  The forward job decides
\* on the count stored, which is therefore the last one reported.
C18_VotesAreTheLastReported ==
    [][/\ \A id \in PollIds, v \in VoteCounts :
            (InRegistry(id) /\ ReceivePollUpdate(id, v)) =>
                /\ poll_data'[id].plus_votes = v
                /\ poll_data'[id].chat_id = poll_data[id].chat_id
                /\ poll_data'[id].message_id = poll_data[id].message_id
       /\ \A id \in DOMAIN poll_data' :
            IF id \in DOMAIN poll_data
            THEN poll_data'[id].plus_votes # poll_data[id].plus_votes =>
                     \E v \in VoteCounts :
                         ReceivePollUpdate(id, v) /\ poll_data'[id].plus_votes = v
            ELSE poll_data'[id].plus_votes = 0
       /\ \A j \in jobs :
            (InRegistry(j.poll_id) /\ ForwardConfigured /\ EscalationTaskFired(j)) =>
                (fwdCalls'[j.poll_id] # fwdCalls[j.poll_id]
                    <=> poll_data[j.poll_id].plus_votes < THRESHOLD)
      ]_vars

\* Poll 1 received 15 or more votes, the stop_poll call of the vote handler
\* raised, and a later update reported 5: the entry holds 5.
C18_Witness ==
    /\ InRegistry(1) /\ poll_data[1].plus_votes = 5
    /\ stopCalls[1] = [vote |-> 1, close |-> 0]
    /\ Closing(running, 1) = {}

\* C19: whenever a closure path reaches `del poll_data[poll_id]`, its stop_poll
\* call having returned, the poll id is still a key of the registry: the
\* `del` never raises KeyError.
C19_DelFindsTheEntry ==
    [][\A r \in running : StopPollReturns(r) => InRegistry(r.poll_id)]_vars

\* What a step of poll a must leave alone: the entry of poll b, the jobs of
\* poll b, and every job that is not a job of poll a.
C20_Untouched(a, b) ==
    /\ b \in DOMAIN poll_data' /\ poll_data'[b] = poll_data[b]
    /\ JobsOf(jobs', b) = JobsOf(jobs, b)
    /\ (jobs \ jobs') \subseteq JobsOf(jobs, a)

\* C20: with two polls a and b in the registry, every step of poll a (a poll
\* update, the end of its early closure, the firing of its close job or of
\* its forward job and the end of the calls they make) leaves b's entry and
\* b's jobs as they were, and takes only jobs of poll a off the queue.
C20_PollsAreIsolated ==
    [][\A a \in PollIds, b \in PollIds :
         (a # b /\ InRegistry(a) /\ InRegistry(b)) =>
            /\ \A v \in VoteCounts : ReceivePollUpdate(a, v) => C20_Untouched(a, b)
            /\ \A r \in running :
                 (r.poll_id = a /\ (StopPollReturns(r) \/ StopPollFails(r) \/ ForwardEnds(r)))
                     => C20_Untouched(a, b)
            /\ \A j \in jobs :
                 (j.poll_id = a /\ (CloseTaskFired(j) \/ EscalationTaskFired(j)))
                     => C20_Untouched(a, b)
      ]_vars

\* Polls 1 and 2 are open; poll 1 reached the threshold, its jobs are
\* cancelled and its stop_poll call is in flight, while poll 2 has its 5
\* votes and both its jobs.
C20_Witness ==
    /\ InRegistry(1) /\ InRegistry(2)
    /\ poll_data[1].plus_votes >= THRESHOLD /\ JobsOf(jobs, 1) = {}
    /\ \E r \in running : r.h = "vote" /\ r.poll_id = 1
    /\ poll_data[2].plus_votes = 5
    /\ {j.name : j \in JobsOf(jobs, 2)} = {"close", "forward"}

====
